---- MODULE Spec2Model ----
(***************************************************************************)
(* Model of tools/gen.DIR.txt.py: detect the repository root, walk the     *)
(* directory tree below it, and write the rendered tree to <root>/DIR.txt. *)
(*                                                                         *)
(* Text is modelled as sequences of Unicode code points, so that           *)
(* str.lower(), string comparison, concatenation, join and rstrip are      *)
(* computed and not assumed.  The filesystem is a finite tree of nodes.    *)
(***************************************************************************)
EXTENDS Integers, Sequences, FiniteSets, TLC

\* ------------------------------------------------------------------ bounds
\* Number of entries below the top directory in the initial filesystem.
MaxNodes == 3
\* Number of directories whose enumeration fails.
MaxFaults == 1
\* Number of times main is run.
MaxRuns == 3

\* ------------------------------------------------------------- text values
\* ".git"
DOT_GIT == <<46, 103, 105, 116>>
\* ".vscode"
DOT_VSCODE == <<46, 118, 115, 99, 111, 100, 101>>
\* ".venv"
DOT_VENV == <<46, 118, 101, 110, 118>>
\* "venv"
VENV == <<118, 101, 110, 118>>
\* "__pycache__"
PYCACHE == <<95, 95, 112, 121, 99, 97, 99, 104, 101, 95, 95>>
\* "node_modules"
NODE_MODULES == <<110, 111, 100, 101, 95, 109, 111, 100, 117, 108, 101, 115>>
\* "dist"
DIST == <<100, 105, 115, 116>>
\* "build"
BUILD == <<98, 117, 105, 108, 100>>
\* ".pytest_cache"
PYTEST_CACHE == <<46, 112, 121, 116, 101, 115, 116, 95, 99, 97, 99, 104, 101>>
\* ".mypy_cache"
MYPY_CACHE == <<46, 109, 121, 112, 121, 95, 99, 97, 99, 104, 101>>
\* ".ruff_cache"
RUFF_CACHE == <<46, 114, 117, 102, 102, 95, 99, 97, 99, 104, 101>>
\* ".DS_Store"
DS_STORE == <<46, 68, 83, 95, 83, 116, 111, 114, 101>>
\* "DIR.txt"
DIR_TXT == <<68, 73, 82, 46, 116, 120, 116>>
\* "└── "  (corner branch)
CORNER == <<9492, 9472, 9472, 32>>
\* "├── "  (tee branch)
TEE == <<9500, 9472, 9472, 32>>
\* "    "
BLANK == <<32, 32, 32, 32>>
\* "│   "  (vertical bar)
BAR == <<9474, 32, 32, 32>>
\* "/"
SLASH == <<47>>
\* "\n"
NEWLINE == <<10>>
\* "a", "A", "B", "r": entry names used to populate the filesystem
name_a == <<97>>
name_A == <<65>>
name_B == <<66>>
name_r == <<114>>

DEFAULT_IGNORE_DIRS ==
  {DOT_GIT, DOT_VSCODE, DOT_VENV, VENV, PYCACHE, NODE_MODULES, DIST, BUILD,
   PYTEST_CACHE, MYPY_CACHE, RUFF_CACHE}

DEFAULT_IGNORE_FILES == {DS_STORE}

INCLUDE_HIDDEN == TRUE

\* Names given to the entries of the initial filesystem of Spec / SpecMain.
TreeNames == {name_a, name_A, name_B, NODE_MODULES, DS_STORE}
\* Names of the directory render_tree is called on.
RootNames == {name_r, NODE_MODULES}
\* Names given to the entries of the initial filesystem of SpecRoot.
RepoNames == {name_a, DOT_GIT}

\* ------------------------------------------------------------------- state
\* Node 0 is the top directory; 1..MaxNodes are entries below it; the last
\* node is the slot of the DIR.txt file main creates.
Nodes == 0 .. (MaxNodes + 1)
DirTxtNode == MaxNodes + 1

VARIABLES
  present,   \* the nodes that exist
  parent,    \* parent[n]: the directory holding n (parent[n] = n: none)
  name,      \* name[n]: Path.name of n
  kind,      \* kind[n]: "dir" or "file" (what Path.is_dir() answers)
  denied,    \* directories whose iterdir() raises PermissionError
  broken,    \* directories whose iterdir() raises another OSError
  cwd,       \* os.getcwd()
  git,       \* outcome of `git rev-parse --show-toplevel` run in cwd
  detected,  \* what the last detect_repo_root call returned
  out,       \* outcome of the last render_tree call
  written    \* contents main has written to DIR.txt, oldest first

vars == <<present, parent, name, kind, denied, broken, cwd, git, detected,
          out, written>>

fsvars == <<present, parent, name, kind, denied, broken, cwd, git>>

\* ----------------------------------------------------------- str helpers
\* str.lower() on ASCII text
Lower(s) == [i \in 1..Len(s) |-> IF s[i] >= 65 /\ s[i] <= 90 THEN s[i] + 32 ELSE s[i]]

\* s < t for str: lexicographic by code point
RECURSIVE StrLess(_, _)
StrLess(s, t) ==
  IF t = <<>> THEN FALSE
  ELSE IF s = <<>> THEN TRUE
  ELSE IF Head(s) # Head(t) THEN Head(s) < Head(t)
  ELSE StrLess(Tail(s), Tail(t))

\* name.startswith(".")
StartsWithDot(s) == Len(s) >= 1 /\ s[1] = 46

\* ------------------------------------------------------------ filesystem
IsDir(n) == n \in present /\ kind[n] = "dir"

\* the entries directly inside directory p
ChildrenOf(p) == {c \in present : c # p /\ parent[c] = p}

\* all orders of a finite set, as sequences
RECURSIVE Perms(_)
Perms(S) ==
  IF S = {} THEN {<<>>}
  ELSE UNION {{<<x>> \o q : q \in Perms(S \ {x})} : x \in S}

\* The order in which the operating system yields the entries of each
\* directory is arbitrary: one enumeration order per directory.
RECURSIVE EnumOrders(_)
EnumOrders(D) ==
  IF D = {} THEN {<<>>}
  ELSE LET d == CHOOSE x \in D : TRUE
       IN  {(d :> q) @@ f : q \in Perms(ChildrenOf(d)), f \in EnumOrders(D \ {d})}

Dirs == {n \in present : kind[n] = "dir"}

\* ------------------------------------------------------------ should_ignore
\* should_ignore without its file branch: no file is ever ignored
ShouldIgnore_DirsOnly(path) ==
  IsDir(path) /\ (\/ name[path] \in DEFAULT_IGNORE_DIRS
                  \/ (~INCLUDE_HIDDEN /\ StartsWithDot(name[path])))

\* should_ignore without its directory branch: no directory is ever ignored
ShouldIgnore_FilesOnly(path) ==
  ~IsDir(path) /\ (\/ name[path] \in DEFAULT_IGNORE_FILES
                   \/ (~INCLUDE_HIDDEN /\ StartsWithDot(name[path])))

ShouldIgnore(path) ==
  IF IsDir(path)
  THEN \/ name[path] \in DEFAULT_IGNORE_DIRS
       \/ (~INCLUDE_HIDDEN /\ StartsWithDot(name[path]))
  ELSE \/ name[path] \in DEFAULT_IGNORE_FILES
       \/ (~INCLUDE_HIDDEN /\ StartsWithDot(name[path]))

\* ----------------------------------------------------- list_children_sorted
\* the sort key (0 if x.is_dir() else 1, x.name.lower())
KindRank(x) == IF IsDir(x) THEN 0 ELSE 1

\* the sort key without .lower(): (0 if x.is_dir() else 1, x.name)
KeyLess_CaseSensitive(x, y) ==
  \/ KindRank(x) < KindRank(y)
  \/ KindRank(x) = KindRank(y) /\ StrLess(name[x], name[y])

KeyLess(x, y) ==
  \/ KindRank(x) < KindRank(y)
  \/ KindRank(x) = KindRank(y) /\ StrLess(Lower(name[x]), Lower(name[y]))

\* list.sort is stable: an element goes after every element whose key is
\* not greater than its own.
RECURSIVE InsertByKey(_, _)
InsertByKey(sorted, c) ==
  IF sorted = <<>> THEN <<c>>
  ELSE IF KeyLess(c, Head(sorted)) THEN <<c>> \o sorted
  ELSE <<Head(sorted)>> \o InsertByKey(Tail(sorted), c)

RECURSIVE SortByKey(_)
SortByKey(s) ==
  IF s = <<>> THEN <<>>
  ELSE InsertByKey(SortByKey(SubSeq(s, 1, Len(s) - 1)), s[Len(s)])

NotIgnored(c) == ~ShouldIgnore(c)

\* list_children_sorted without its except clause: PermissionError propagates
ListChildrenSorted_NoCatch(p, order) ==
  IF p \in denied \/ p \in broken THEN [raised |-> TRUE, children |-> <<>>]
  ELSE [raised |-> FALSE,
        children |-> SortByKey(SelectSeq(order[p], NotIgnored))]

\* order[p] is the sequence p.iterdir() yields
ListChildrenSorted(p, order) ==
  IF p \in denied THEN [raised |-> FALSE, children |-> <<>>]
  ELSE IF p \in broken THEN [raised |-> TRUE, children |-> <<>>]
  ELSE [raised |-> FALSE,
        children |-> SortByKey(SelectSeq(order[p], NotIgnored))]

\* -------------------------------------------------------------- render_tree
\* An emitted line: its text, and (for stating properties only) the entry
\* it was emitted for.  render_tree returns the texts.
Line(n, text) == [path |-> n, text |-> text]

RECURSIVE Walk(_, _, _, _)
RECURSIVE WalkLoop(_, _, _, _, _)

\* walk(dir_path, prefix) appending to lines
Walk(dir_path, prefix, order, lines) ==
  LET ls == ListChildrenSorted(dir_path, order)
  IN  IF ls.raised THEN [raised |-> TRUE, lines |-> lines]
      ELSE WalkLoop(ls.children, 1, prefix, order, lines)

\* the loop of walk without the recursive call: directories are not entered
RECURSIVE WalkLoop_NoRecursion(_, _, _, _, _)
WalkLoop_NoRecursion(children, idx, prefix, order, lines) ==
  IF idx > Len(children) THEN [raised |-> FALSE, lines |-> lines]
  ELSE LET child == children[idx]
           is_last == (idx = Len(children))
           branch == IF is_last THEN CORNER ELSE TEE
       IN  WalkLoop_NoRecursion(children, idx + 1, prefix, order,
             Append(lines, Line(child, prefix \o branch \o name[child]
                                         \o (IF IsDir(child) THEN SLASH ELSE <<>>))))

\* the loop of walk with next_prefix = prefix + "│   " whatever is_last is
RECURSIVE WalkLoop_BarPrefix(_, _, _, _, _)
WalkLoop_BarPrefix(children, idx, prefix, order, lines) ==
  IF idx > Len(children) THEN [raised |-> FALSE, lines |-> lines]
  ELSE LET child == children[idx]
           is_last == (idx = Len(children))
           branch == IF is_last THEN CORNER ELSE TEE
           next_prefix == prefix \o BAR
       IN  IF IsDir(child)
           THEN LET sub == Walk(child, next_prefix, order,
                                Append(lines, Line(child, prefix \o branch \o name[child] \o SLASH)))
                IN  IF sub.raised THEN sub
                    ELSE WalkLoop_BarPrefix(children, idx + 1, prefix, order, sub.lines)
           ELSE WalkLoop_BarPrefix(children, idx + 1, prefix, order,
                                   Append(lines, Line(child, prefix \o branch \o name[child])))

\* the for loop of walk, from index idx (1-based) on
WalkLoop(children, idx, prefix, order, lines) ==
  IF idx > Len(children) THEN [raised |-> FALSE, lines |-> lines]
  ELSE LET child == children[idx]
           is_last == (idx = Len(children))
           branch == IF is_last THEN CORNER ELSE TEE
           next_prefix == prefix \o (IF is_last THEN BLANK ELSE BAR)
       IN  IF IsDir(child)
           THEN LET sub == Walk(child, next_prefix, order,
                                Append(lines, Line(child, prefix \o branch \o name[child] \o SLASH)))
                IN  IF sub.raised THEN sub
                    ELSE WalkLoop(children, idx + 1, prefix, order, sub.lines)
           ELSE WalkLoop(children, idx + 1, prefix, order,
                         Append(lines, Line(child, prefix \o branch \o name[child])))

\* str(root) of the top directory, whose name is empty
RootStr == SLASH

RenderTree(root, order) ==
  LET root_name == IF name[root] # <<>> THEN name[root] ELSE RootStr
      res == Walk(root, <<>>, order, <<Line(root, root_name \o SLASH)>>)
  IN  IF res.raised THEN [status |-> "raised", root |-> root, lines |-> <<>>]
      ELSE [status |-> "returned", root |-> root, lines |-> res.lines]

NotDetected == [done |-> FALSE, root |-> 0]

NoResult == [status |-> "none", root |-> 0, lines |-> <<>>]

\* ------------------------------------------------------------------- Init
\* Node ids carry no meaning, so each tree is built once: ids are assigned
\* breadth-first with the entries of one directory in name order.
TreeShapes(k) ==
  {p \in [1..k -> 0..(k-1)] :
     /\ \A i \in 1..k : p[i] < i
     /\ \A i \in 1..(k-1) : p[i] <= p[i+1]}

InitTree(names, rootnames) ==
  \E k \in 0..MaxNodes :
    /\ present = 0..k
    /\ \E p \in TreeShapes(k) :
         parent = [n \in Nodes |-> IF n \in 1..k THEN p[n] ELSE n]
    /\ \E kd \in [1..k -> {"dir", "file"}] :
         /\ \A i \in 1..k : parent[i] # 0 => kd[parent[i]] = "dir"
         /\ kind = [n \in Nodes |-> IF n = 0 THEN "dir"
                                    ELSE IF n \in 1..k THEN kd[n] ELSE "file"]
    /\ \E nm \in [1..k -> names] :
         /\ \A i \in 1..(k-1) : parent[i] = parent[i+1] => StrLess(nm[i], nm[i+1])
         /\ \E rn \in rootnames :
              name = [n \in Nodes |-> IF n = 0 THEN rn
                                      ELSE IF n \in 1..k THEN nm[n] ELSE <<>>]

InitFaults ==
  /\ denied \in SUBSET Dirs
  /\ broken \in SUBSET (Dirs \ denied)
  /\ Cardinality(denied) + Cardinality(broken) <= MaxFaults

Init ==
  /\ InitTree(TreeNames, RootNames)
  /\ InitFaults
  /\ cwd = 0
  /\ git = [status |-> "absent", top |-> 0]
  /\ detected = NotDetected
  /\ out = NoResult
  /\ written = <<>>

\* -------------------------------------------------------- detect_repo_root
\* (p / ".git").exists(): an entry of any kind named .git inside p
HasDotGit(p) == \E c \in ChildrenOf(p) : name[c] = DOT_GIT

\* for p in [cur, *cur.parents]: the first p holding .git, else start
RECURSIVE FirstWithDotGit(_, _)
FirstWithDotGit(p, start) ==
  IF HasDotGit(p) THEN p
  ELSE IF parent[p] = p THEN start
  ELSE FirstWithDotGit(parent[p], start)

\* git.status: "absent" (the executable is missing), "nonzero" (non-zero
\* exit), "empty" (exit 0, blank output), "ok" (exit 0, prints git.top)
DetectRepoRoot(start) ==
  IF git.status = "ok" THEN git.top
  ELSE FirstWithDotGit(start, start)

\* --------------------------------------------------------------------- main
\* sep.join(lines)
RECURSIVE Join(_, _)
Join(lines, sep) ==
  IF lines = <<>> THEN <<>>
  ELSE IF Len(lines) = 1 THEN lines[1]
  ELSE lines[1] \o sep \o Join(Tail(lines), sep)

\* the characters str.rstrip() removes
Whitespace == {9, 10, 11, 12, 13, 28, 29, 30, 31, 32, 133, 160}

RECURSIVE Rstrip(_)
Rstrip(s) ==
  IF s # <<>> /\ s[Len(s)] \in Whitespace THEN Rstrip(SubSeq(s, 1, Len(s) - 1))
  ELSE s

TextsOf(lines) == [i \in 1..Len(lines) |-> lines[i].text]

Content(tree_lines) == Rstrip(Join(tree_lines, NEWLINE)) \o NEWLINE

\* ----------------------------------------------------------------- actions
\* a call render_tree(root) on the top directory
CallRenderTree ==
  /\ \E order \in EnumOrders(Dirs) : out' = RenderTree(0, order)
  /\ UNCHANGED <<fsvars, detected, written>>

\* a call detect_repo_root(cwd)
CallDetectRepoRoot ==
  /\ detected' = [done |-> TRUE, root |-> DetectRepoRoot(cwd)]
  /\ UNCHANGED <<fsvars, out, written>>

\* one run of main.  An exception of render_tree or write_text ends the run
\* before anything is written.
Main ==
  /\ Len(written) < MaxRuns
  /\ LET repo_root == DetectRepoRoot(cwd)
         old == {c \in ChildrenOf(repo_root) : name[c] = DIR_TXT}
     IN  \E order \in EnumOrders(Dirs) :
           LET res == RenderTree(repo_root, order)
           IN  /\ detected' = [done |-> TRUE, root |-> repo_root]
               /\ out' = res
               /\ IF res.status = "raised" \/ (\E c \in old : kind[c] = "dir")
                  THEN UNCHANGED <<fsvars, written>>
                  ELSE /\ written' = Append(written, Content(TextsOf(res.lines)))
                       /\ IF old = {}
                          THEN /\ present' = present \cup {DirTxtNode}
                               /\ parent' = [parent EXCEPT ![DirTxtNode] = repo_root]
                               /\ name' = [name EXCEPT ![DirTxtNode] = DIR_TXT]
                               /\ kind' = [kind EXCEPT ![DirTxtNode] = "file"]
                               /\ UNCHANGED <<denied, broken, cwd, git>>
                          ELSE UNCHANGED fsvars

Next == CallRenderTree

Spec == Init /\ [][Next]_vars

\* detect_repo_root alone, over filesystems that hold .git entries
InitRoot ==
  /\ InitTree(RepoNames, {<<>>})
  /\ denied = {}
  /\ broken = {}
  /\ cwd \in Dirs
  /\ \/ \E st \in {"absent", "nonzero", "empty"} : git = [status |-> st, top |-> 0]
     \/ \E t \in Dirs : git = [status |-> "ok", top |-> t]
  /\ detected = NotDetected
  /\ out = NoResult
  /\ written = <<>>

NextRoot == CallDetectRepoRoot

SpecRoot == InitRoot /\ [][NextRoot]_vars

\* repeated runs of main from the top directory
NextMain == Main

SpecMain == Init /\ [][NextMain]_vars

\* ------------------------------------------------- vocabulary of the claims
Returned == out.status = "returned"

LineIdx == 1..Len(out.lines)

PathAt(i) == out.lines[i].path

TextAt(i) == out.lines[i].text

\* n and its ancestors strictly below the rendered root
RECURSIVE Below(_)
Below(n) == IF parent[n] = n THEN {} ELSE {n} \cup Below(parent[n])

\* the walk gets to n: nothing from n up to the root is ignored, and every
\* directory above n yields its entries
Reached(n) ==
  \A m \in Below(n) : ~ShouldIgnore(m) /\ parent[m] \notin (denied \cup broken)

\* a directory the walk tries to list raises an error other than PermissionError
BrokenReached == \E b \in broken : Reached(b)

EndsWith(s, t) == Len(s) >= Len(t) /\ SubSeq(s, Len(s) - Len(t) + 1, Len(s)) = t

IsDirLine(text) == EndsWith(text, SLASH)

\* the 1-based offset of the connector in a line, 0 when the line has none
RECURSIVE ConnectorAt(_, _)
ConnectorAt(text, i) ==
  IF i + 3 > Len(text) THEN 0
  ELSE IF SubSeq(text, i, i + 3) \in {CORNER, TEE} THEN i
  ELSE IF SubSeq(text, i, i + 3) \in {BLANK, BAR} THEN ConnectorAt(text, i + 4)
  ELSE 0

\* the text after the prefix and the connector, without the directory marker
TrailingName(text) ==
  LET c == ConnectorAt(text, 1)
      rest == IF c = 0 THEN text ELSE SubSeq(text, c + 4, Len(text))
  IN  IF IsDirLine(rest) THEN SubSeq(rest, 1, Len(rest) - 1) ELSE rest

\* the index of the line emitted for n (0: none)
IndexOf(n) == IF \E i \in LineIdx : PathAt(i) = n
              THEN CHOOSE i \in LineIdx : PathAt(i) = n ELSE 0

Emitted == {PathAt(i) : i \in LineIdx}

\* ----------------------------------------------------------------------- C1
\* C1: the number of lines render_tree returns is 1 (the root line) plus the
\* number of entries below the root that the walk reaches: entries that are
\* not ignored and whose every directory up to the root is not ignored and
\* could be listed.
C1_LineCount ==
  Returned => Len(out.lines) = 1 + Cardinality({n \in present \ {0} : Reached(n)})

\* a tree where an ignored directory hides an entry and a directory that
\* cannot be listed hides another one, next to entries that are listed
C1_Witness ==
  /\ Returned
  /\ Len(out.lines) >= 2
  /\ \E n \in present \ {0} : ~Reached(n) /\ ~ShouldIgnore(n)
  /\ \E n \in present \ {0} : ShouldIgnore(n)

\* ----------------------------------------------------------------------- C2
\* C2: among the lines of the entries of one directory, every directory
\* comes before every file, and within each kind the lower-cased names are
\* non-decreasing.
C2_SiblingOrder ==
  Returned =>
    \A i, j \in LineIdx :
      (1 < i /\ i < j /\ parent[PathAt(i)] = parent[PathAt(j)]) =>
        /\ IsDirLine(TextAt(j)) => IsDirLine(TextAt(i))
        /\ (IsDirLine(TextAt(i)) <=> IsDirLine(TextAt(j))) =>
             ~StrLess(Lower(TrailingName(TextAt(j))), Lower(TrailingName(TextAt(i))))

\* a directory listed with a directory and two files whose names order
\* differently with and without case: "B" < "a" but "a" < "b"
C2_Witness ==
  /\ Returned
  /\ \E d, f, g \in Emitted \ {0} :
       /\ parent[d] = parent[f] /\ parent[f] = parent[g]
       /\ kind[d] = "dir" /\ kind[f] = "file" /\ kind[g] = "file"
       /\ name[f] = name_a /\ name[g] = name_B
       /\ IndexOf(d) < IndexOf(f) /\ IndexOf(f) < IndexOf(g)

\* ----------------------------------------------------------------------- C3
\* C3 as stated: no line has a trailing name (the text after the prefix and
\* the connector) that is a literal of DEFAULT_IGNORE_DIRS or of
\* DEFAULT_IGNORE_FILES.
C3_NoIgnoredLiteral ==
  Returned =>
    \A i \in LineIdx :
      i > 1 =>
        TrailingName(TextAt(i)) \notin (DEFAULT_IGNORE_DIRS \cup DEFAULT_IGNORE_FILES)

\* C3 amended: no directory line (prefix, connector, name, "/") has a
\* trailing name in DEFAULT_IGNORE_DIRS and no file line (prefix, connector,
\* name) has a trailing name in DEFAULT_IGNORE_FILES.
C3_NoIgnoredOfItsKind ==
  Returned =>
    \A i \in LineIdx :
      i > 1 =>
        IF IsDirLine(TextAt(i))
        THEN TrailingName(TextAt(i)) \notin DEFAULT_IGNORE_DIRS
        ELSE TrailingName(TextAt(i)) \notin DEFAULT_IGNORE_FILES

\* the root holds a file named .DS_Store and a directory named node_modules,
\* and a third entry that is listed
C3_Witness ==
  /\ Returned
  /\ Len(out.lines) >= 2
  /\ \E f, d \in ChildrenOf(0) :
       /\ kind[f] = "file" /\ name[f] = DS_STORE
       /\ kind[d] = "dir" /\ name[d] = NODE_MODULES

\* ----------------------------------------------------------------------- C4
\* C4 as stated: no line is emitted for a directory named node_modules
\* anywhere in the rendered tree (the root included), nor for an entry
\* beneath one.
C4_NodeModulesAnywhere ==
  Returned =>
    \A i \in LineIdx :
      \A m \in Below(PathAt(i)) \cup {0} :
        ~(kind[m] = "dir" /\ name[m] = NODE_MODULES)

\* C4 amended: no line is emitted for a directory named node_modules below
\* the root, nor for an entry beneath one.
C4_NodeModulesBelowRoot ==
  Returned =>
    \A i \in LineIdx :
      \A m \in Below(PathAt(i)) :
        ~(kind[m] = "dir" /\ name[m] = NODE_MODULES)

\* a directory named node_modules that holds an entry, next to a listed entry
C4_Witness ==
  /\ Returned
  /\ Len(out.lines) >= 2
  /\ \E d \in ChildrenOf(0) :
       /\ kind[d] = "dir" /\ name[d] = NODE_MODULES
       /\ \E c \in ChildrenOf(d) : ~ShouldIgnore(c)

\* ----------------------------------------------------------------------- C5
\* C5: a second call of render_tree on the same root of the unchanged
\* filesystem returns the lines the first call returned, whatever order the
\* directory enumeration yields the entries in.
C5_Idempotent ==
  [][(out.status = "returned" /\ out'.status = "returned" /\ UNCHANGED fsvars)
       => TextsOf(out'.lines) = TextsOf(out.lines)]_vars

\* ----------------------------------------------------------------------- C6
\* C6: when the walk reaches a subdirectory whose enumeration raises
\* PermissionError (and no directory raising another error), render_tree
\* returns; the subdirectory has its own line, name and "/"; nothing beneath
\* it has a line; and every entry of the same directory that is not ignored
\* has its line, those sorting after it after its line.
C6_PermissionDenied ==
  (out.status # "none" /\ ~BrokenReached) =>
    /\ Returned
    /\ \A d \in denied \ {0} :
         Reached(d) =>
           /\ IndexOf(d) > 0
           /\ EndsWith(TextAt(IndexOf(d)), name[d] \o SLASH)
           /\ \A i \in LineIdx : PathAt(i) # d => d \notin Below(PathAt(i))
           /\ \A s \in ChildrenOf(parent[d]) :
                ~ShouldIgnore(s) =>
                  /\ IndexOf(s) > 0
                  /\ KeyLess(d, s) => IndexOf(s) > IndexOf(d)

\* a denied subdirectory that holds a listable entry and is followed by an entry
C6_Witness ==
  /\ Returned
  /\ \E d \in denied \ {0} :
       /\ Reached(d)
       /\ \E c \in ChildrenOf(d) : ~ShouldIgnore(c)
       /\ \E s \in ChildrenOf(parent[d]) : IndexOf(s) > IndexOf(d) /\ IndexOf(d) > 0

\* ----------------------------------------------------------------------- C7
\* C7: render_tree always returns a line sequence; no exception reaches
\* its caller.
C7_NeverRaises == out.status # "raised"

\* ----------------------------------------------------------------------- C8
\* the nearest of start and its ancestors that holds a .git directory, else
\* start
RECURSIVE NearestWithGitDir(_, _)
NearestWithGitDir(p, start) ==
  IF \E c \in ChildrenOf(p) : name[c] = DOT_GIT /\ kind[c] = "dir" THEN p
  ELSE IF parent[p] = p THEN start
  ELSE NearestWithGitDir(parent[p], start)

\* C8: when the toplevel query fails, detect_repo_root returns the nearest
\* directory among start and its ancestors that contains a .git metadata
\* directory, and start itself when there is none.
C8_FallbackNearestGitDir ==
  (detected.done /\ git.status # "ok") =>
    detected.root = NearestWithGitDir(cwd, cwd)

\* ----------------------------------------------------------------------- C9
\* the entry of line i is the last listed entry of its directory
LastListed(i) == \A k \in LineIdx : k > i => parent[PathAt(k)] # parent[PathAt(i)]

\* the prefix of the line of n: one group per ancestor strictly below the
\* root, outermost first
RECURSIVE PrefixOf(_)
PrefixOf(n) ==
  IF parent[n] = 0 THEN <<>>
  ELSE PrefixOf(parent[n]) \o (IF LastListed(IndexOf(parent[n])) THEN BLANK ELSE BAR)

\* C9: the output is the preorder listing: the root line is first, the lines
\* of the entries beneath a directory follow its line without a gap and
\* before any other line, and every line below the root is P + connector +
\* name (+ "/" for a directory), the connector the corner for the last
\* listed entry of its directory and the tee otherwise, P built from the
\* ancestors below the root: four spaces for one that was last listed, the
\* bar otherwise.
C9_PreorderAndFormat ==
  Returned =>
    /\ PathAt(1) = 0
    /\ TextAt(1) = name[0] \o SLASH
    /\ \A i, j \in LineIdx : PathAt(i) = PathAt(j) => i = j
    /\ \A j \in LineIdx : j > 1 => IndexOf(parent[PathAt(j)]) \in 1..(j - 1)
    /\ \A i, j \in LineIdx :
         (1 < i /\ i < j) =>
           (PathAt(i) \in Below(PathAt(j)) <=>
              j <= i + Cardinality({k \in LineIdx : k # i /\ PathAt(i) \in Below(PathAt(k))}))
    /\ \A j \in LineIdx :
         j > 1 =>
           TextAt(j) = PrefixOf(PathAt(j))
                         \o (IF LastListed(j) THEN CORNER ELSE TEE)
                         \o name[PathAt(j)]
                         \o (IF kind[PathAt(j)] = "dir" THEN SLASH ELSE <<>>)

\* a directory that is not the last of its siblings and holds a listed entry:
\* the entry's line starts with the bar
C9_Witness ==
  /\ Returned
  /\ \E i, j \in LineIdx :
       /\ i < j
       /\ parent[PathAt(j)] = PathAt(i)
       /\ PathAt(i) # 0
       /\ ~LastListed(i)
       /\ SubSeq(TextAt(j), 1, 4) = BAR

\* ---------------------------------------------------------------------- C10
\* text.split(sep) for a one-character sep
RECURSIVE SplitAt(_, _, _)
SplitAt(text, sep, cur) ==
  IF text = <<>> THEN <<cur>>
  ELSE IF Head(text) = sep THEN <<cur>> \o SplitAt(Tail(text), sep, <<>>)
  ELSE SplitAt(Tail(text), sep, Append(cur, Head(text)))

HasRootDirTxtLine(content) ==
  LET ls == SplitAt(content, 10, <<>>)
  IN  \E i \in 1..Len(ls) : ls[i] \in {TEE \o DIR_TXT, CORNER \o DIR_TXT}

\* C10: starting from a root that holds no DIR.txt (and that can be listed),
\* the content the first run of main writes has no DIR.txt line, the content
\* the second run writes has a root-level DIR.txt line, and every later run
\* writes what the second run wrote.
C10_FixedPointAfterTwoRuns ==
  (0 \notin denied) =>
    /\ Len(written) >= 1 => ~HasRootDirTxtLine(written[1])
    /\ Len(written) >= 2 => HasRootDirTxtLine(written[2])
    /\ \A k \in 1..Len(written) : k >= 3 => written[k] = written[2]

====
